---- MODULE Spec2Model ----
(***************************************************************************)
(* AudioPreprocessor of PreprocessingForTTS/ProcessAudio.py.               *)
(*                                                                         *)
(* One preprocessor object is constructed (Init) and then reused for a     *)
(* sequence of synchronous calls.  A call is executed one sub-operation at *)
(* a time; todo is the continuation of the running call, cur the value the *)
(* next sub-operation receives, and log the sub-operations performed so    *)
(* far with their argument and result.                                     *)
(*                                                                         *)
(* Floating point samples are fixed point numbers in units of 1/One, with  *)
(* NaN, PosInf and NegInf as the IEEE special values.  An array is a       *)
(* record [kind, shape, data] with data in row-major order.                *)
(***************************************************************************)
EXTENDS Integers, Sequences, FiniteSets

\* ---------------------------------------------------------------- bounds
MaxLen == 3
MaxChannels == 2
MaxNfft == 3
MaxHop == 2

\* sampling rates the object is configured with
Rates == {2, 4}
\* sample amplitudes of the input waveforms (units of 1/One)
Samples == {-1000, 0, 500}
\* gains the loudness meter can ask for on a non-silent signal
Gains == {1, 3}

\* ------------------------------------------------------------- constants
None == 0
One == 1000
NaN == 1000001
PosInf == 1000002
NegInf == 1000003
BadCode == 1000004
MelBucketsDefault == 80
QuantizationChannels == 256

\* ----------------------------------------------------- float arithmetic
IsSpecial(v) == v \in {NaN, PosInf, NegInf}

FAbs(v) ==
    IF v = NaN THEN NaN
    ELSE IF v \in {PosInf, NegInf} THEN PosInf
    ELSE IF v < 0 THEN -v ELSE v

\* g * v for a gain g that is a positive number or +inf
FMul(g, v) ==
    IF v = NaN THEN NaN
    ELSE IF v \in {PosInf, NegInf} THEN v
    ELSE IF g = PosInf
         THEN (IF v = 0 THEN NaN ELSE IF v > 0 THEN PosInf ELSE NegInf)
         ELSE g * v

\* a / b for b >= 0, rounded towards zero
FDiv(a, b) ==
    IF a = NaN \/ b = NaN THEN NaN
    ELSE IF IsSpecial(a) /\ IsSpecial(b) THEN NaN
    ELSE IF IsSpecial(a) THEN a
    ELSE IF IsSpecial(b) THEN 0
    ELSE IF b = 0
         THEN (IF a = 0 THEN NaN ELSE IF a > 0 THEN PosInf ELSE NegInf)
         ELSE IF a >= 0 THEN (a * One) \div b ELSE -(((-a) * One) \div b)

\* numpy.amax of a non-empty sequence of absolute values: NaN propagates
AMax(s) ==
    IF \E i \in 1..Len(s) : s[i] = NaN THEN NaN
    ELSE IF \E i \in 1..Len(s) : s[i] = PosInf THEN PosInf
    ELSE CHOOSE m \in {s[i] : i \in 1..Len(s)} : \A i \in 1..Len(s) : s[i] <= m

\* -------------------------------------------------------------- arrays
RECURSIVE Prod(_)
Prod(shape) == IF shape = <<>> THEN 1 ELSE Head(shape) * Prod(Tail(shape))

Array(kind, shape, data) == [kind |-> kind, shape |-> shape, data |-> data]

NDim(x) == Len(x.shape)

IsError(x) == x.kind \notin {"float", "code", "mel"}

Raise(name) == Array(name, <<>>, <<>>)

NoValue == Array("none", <<>>, <<>>)

LastDim(x) == IF x.shape = <<>> THEN 1 ELSE x.shape[Len(x.shape)]

Rows(x) == IF LastDim(x) = 0 THEN 0 ELSE Len(x.data) \div LastDim(x)

At(x, r, c) == x.data[(r - 1) * LastDim(x) + c]

\* the array whose last axis has length m and whose column c is column
\* from[c] of x
AlongLast(x, m, from) ==
    Array(x.kind,
          IF x.shape = <<>> THEN <<>> ELSE [x.shape EXCEPT ![Len(x.shape)] = m],
          [i \in 1..(Rows(x) * m) |->
              At(x, ((i - 1) \div m) + 1, from[((i - 1) % m) + 1])])

\* ------------------------------------------------------------ mu-law
\* MuLawThreshold[c] is the least amplitude (units of 1/One) that
\* torchaudio's MuLawEncoding() maps to a code >= c, for c in 1..255:
\*   code(x) = int((sign(x) * log1p(255|x|) / log1p(255) + 1) / 2 * 255 + 0.5)
MuLawThreshold ==
    << -978, -936, -896, -858, -821, -786, -752, -720, -689, -660, -631, -604, -578, -554, -530, -507,
       -485, -465, -445, -425, -407, -390, -373, -357, -341, -327, -313, -299, -286, -274, -262, -251,
       -240, -229, -219, -210, -201, -192, -184, -176, -168, -161, -154, -147, -141, -134, -128, -123,
       -117, -112, -107, -102, -98, -94, -89, -85, -82, -78, -74, -71, -68, -65, -62, -59,
       -56, -54, -51, -49, -47, -44, -42, -40, -38, -37, -35, -33, -32, -30, -29, -27,
       -26, -25, -23, -22, -21, -20, -19, -18, -17, -16, -15, -14, -14, -13, -12, -11,
       -11, -10, -9, -9, -8, -8, -7, -7, -6, -6, -5, -5, -5, -4, -4, -3,
       -3, -3, -2, -2, -2, -2, -1, -1, -1, -1, 0, 0, 0, 0, 0, 0,
       1, 1, 1, 1, 1, 2, 2, 2, 2, 3, 3, 3, 3, 4, 4, 4,
       5, 5, 6, 6, 6, 7, 7, 8, 8, 9, 9, 10, 10, 11, 12, 12,
       13, 14, 15, 15, 16, 17, 18, 19, 20, 21, 22, 23, 24, 26, 27, 28,
       30, 31, 33, 34, 36, 38, 39, 41, 43, 45, 48, 50, 52, 55, 57, 60,
       63, 66, 69, 72, 75, 79, 83, 86, 90, 95, 99, 103, 108, 113, 118, 124,
       129, 135, 142, 148, 155, 162, 169, 177, 185, 193, 202, 211, 220, 230, 241, 252,
       263, 275, 287, 300, 314, 328, 342, 358, 374, 391, 408, 426, 446, 466, 486, 508,
       531, 555, 579, 605, 632, 661, 690, 721, 753, 787, 822, 859, 897, 937, 979 >>

\* MuLawDecodeTable[c + 1] is MuLawDecoding()(c) rounded to units of 1/One:
\*   y = 2c/255 - 1,  x = sign(y) * (256^|y| - 1) / 255
MuLawDecodeTable ==
    << -1000, -957, -916, -877, -840, -804, -769, -737, -705, -675, -646, -618, -592, -566, -542, -519,
       -497, -475, -455, -435, -417, -399, -382, -365, -350, -335, -320, -306, -293, -280, -268, -257,
       -246, -235, -225, -215, -206, -197, -188, -180, -172, -165, -158, -151, -144, -138, -132, -126,
       -121, -115, -110, -105, -101, -96, -92, -88, -84, -80, -77, -73, -70, -67, -64, -61,
       -58, -56, -53, -51, -48, -46, -44, -42, -40, -38, -36, -35, -33, -31, -30, -28,
       -27, -26, -24, -23, -22, -21, -20, -19, -18, -17, -16, -15, -14, -14, -13, -12,
       -12, -11, -10, -10, -9, -8, -8, -7, -7, -7, -6, -6, -5, -5, -4, -4,
       -4, -3, -3, -3, -3, -2, -2, -2, -2, -1, -1, -1, -1, 0, 0, 0,
       0, 0, 0, 1, 1, 1, 1, 2, 2, 2, 2, 3, 3, 3, 3, 4,
       4, 4, 5, 5, 6, 6, 7, 7, 7, 8, 8, 9, 10, 10, 11, 12,
       12, 13, 14, 14, 15, 16, 17, 18, 19, 20, 21, 22, 23, 24, 26, 27,
       28, 30, 31, 33, 35, 36, 38, 40, 42, 44, 46, 48, 51, 53, 56, 58,
       61, 64, 67, 70, 73, 77, 80, 84, 88, 92, 96, 101, 105, 110, 115, 121,
       126, 132, 138, 144, 151, 158, 165, 172, 180, 188, 197, 206, 215, 225, 235, 246,
       257, 268, 280, 293, 306, 320, 335, 350, 365, 382, 399, 417, 435, 455, 475, 497,
       519, 542, 566, 592, 618, 646, 675, 705, 737, 769, 804, 840, 877, 916, 957, 1000 >>

MuLawEncodeSample(v) ==
    IF IsSpecial(v) THEN BadCode
    ELSE Cardinality({c \in 1..(QuantizationChannels - 1) : MuLawThreshold[c] <= v})

MuLawDecodeSample(c) ==
    IF c = BadCode THEN NegInf ELSE MuLawDecodeTable[c + 1]

mu_encode(x) ==
    Array("code", x.shape, [i \in 1..Len(x.data) |-> MuLawEncodeSample(x.data[i])])

mu_decode(x) ==
    Array("float", x.shape, [i \in 1..Len(x.data) |-> MuLawDecodeSample(x.data[i])])

apply_mu_law(audio) == mu_encode(audio)

\* torch.Tensor(audio): the samples as a float tensor of the same shape
Tensor(audio) == Array("float", audio.shape, audio.data)

\* ------------------------------------------------------- construction
\* the resample capability chosen by __init__
Identity == [kind |-> "Identity", orig_freq |-> None, new_freq |-> None]

RateConvert(orig, new) == [kind |-> "RateConvert", orig_freq |-> orig, new_freq |-> new]

\* the constructor without the update of final_sr
AudioPreprocessor_FinalSrNotUpdated(input_sr, output_sr, melspec_buckets, hop_length, n_fft) ==
    [sr          |-> input_sr,
     new_sr      |-> output_sr,
     hop_length  |-> hop_length,
     n_fft       |-> n_fft,
     mel_buckets |-> melspec_buckets,
     final_sr    |-> input_sr,
     resample    |-> IF output_sr # None /\ output_sr # input_sr
                     THEN RateConvert(input_sr, output_sr) ELSE Identity]

AudioPreprocessor(input_sr, output_sr, melspec_buckets, hop_length, n_fft) ==
    [sr          |-> input_sr,
     new_sr      |-> output_sr,
     hop_length  |-> hop_length,
     n_fft       |-> n_fft,
     mel_buckets |-> melspec_buckets,
     final_sr    |-> IF output_sr # None /\ output_sr # input_sr
                     THEN output_sr ELSE input_sr,
     resample    |-> IF output_sr # None /\ output_sr # input_sr
                     THEN RateConvert(input_sr, output_sr) ELSE Identity]

\* ------------------------------------------------ the sub-operations
\* librosa.to_mono(numpy.transpose(x)): the mean over the channels of
\* every frame of a frame x channel array
MeanOfFrame(x, r) ==
    LET RECURSIVE Sum(_)
        Sum(c) == IF c = 0 THEN 0 ELSE At(x, r, c) + Sum(c - 1)
        total == Sum(LastDim(x))
    IN  IF total >= 0 THEN total \div LastDim(x) ELSE -((-total) \div LastDim(x))

\* to_mono that transposes but does not mix the channels down
to_mono_TransposeOnly(x) ==
    IF Len(x.shape) = 2
    THEN Array(x.kind, <<x.shape[2], x.shape[1]>>,
               [i \in 1..Len(x.data) |->
                   At(x, ((i - 1) % x.shape[1]) + 1, ((i - 1) \div x.shape[1]) + 1)])
    ELSE x

to_mono(x) ==
    IF Len(x.shape) = 2
    THEN Array(x.kind, <<x.shape[1]>>, [r \in 1..x.shape[1] |-> MeanOfFrame(x, r)])
    ELSE x

IsSilent(audio) == \A i \in 1..Len(audio.data) : audio.data[i] = 0

\* the gain pyln.normalize.loudness applies to reach -30 LUFS from the
\* loudness the meter measured: the meter reports -inf for digital
\* silence, which makes the gain +inf
LoudnessGains(audio) == IF IsSilent(audio) THEN {PosInf} ELSE Gains

normalize_loudness(audio, gain) ==
    LET loud_normed == [i \in 1..Len(audio.data) |-> FMul(gain, audio.data[i])]
        peak == AMax([i \in 1..Len(audio.data) |-> FAbs(loud_normed[i])])
        peak_normed == [i \in 1..Len(audio.data) |-> FDiv(loud_normed[i], peak)]
    IN  Array(audio.kind, audio.shape, peak_normed)

\* the voice activity detector returns the tensor without its first
\* k samples along the last axis
cut_silence_from_beginning(audio, k) ==
    LET t == Tensor(audio)
        m == LastDim(t) - k
    IN  AlongLast(t, m, [c \in 1..m |-> c + k])

\* Resample(orig_freq, new_freq) gives ceil(new_freq * n / orig_freq)
\* samples along the last axis; sample c is taken from the source
\* position it corresponds to
resample(self, x) ==
    IF self.resample.kind = "Identity" THEN x
    ELSE LET orig == self.resample.orig_freq
             new == self.resample.new_freq
             m == (new * LastDim(x) + orig - 1) \div orig
         IN  AlongLast(x, m, [c \in 1..m |-> (((c - 1) * orig) \div new) + 1])

\* ----------------------------------------------------------- the STFT
\* index into a signal of n samples of position j (1-based, possibly
\* outside 1..n) under numpy's reflect padding
ReflectIndex(j, n) ==
    IF n = 1 THEN 1
    ELSE LET period == 2 * (n - 1)
             t == (j - 1) % period
         IN  IF t < n THEN t + 1 ELSE period - t + 1

\* librosa.stft(center=True, pad_mode="reflect"): the signal padded by
\* n_fft // 2 samples on each side
\* the STFT without centering: no padding at the boundaries
PadReflect_NotCentered(data, n_fft) == data

PadReflect(data, n_fft) ==
    LET pad == n_fft \div 2
    IN  [p \in 1..(Len(data) + 2 * pad) |-> data[ReflectIndex(p - pad, Len(data))]]

\* one frame of n_fft samples starting every hop_length samples
FrameStarts(padded, n_fft, hop_length) ==
    {s \in 0..(Len(padded) - n_fft) : s % hop_length = 0}

StftFrames(data, n_fft, hop_length) ==
    LET padded == PadReflect(data, n_fft)
        starts == FrameStarts(padded, n_fft, hop_length)
    IN  [f \in 1..Cardinality(starts) |->
            [k \in 1..n_fft |-> padded[(f - 1) * hop_length + k]]]

logmelfilterbank(self, audio, sampling_rate) ==
    IF NDim(audio) # 1 \/ Len(audio.data) = 0
    THEN Raise("ParameterError")
    ELSE [kind  |-> "mel",
          shape |-> <<self.mel_buckets,
                      Len(StftFrames(audio.data, self.n_fft, self.hop_length))>>,
          data  |-> <<>>,
          sampling_rate |-> sampling_rate]

mel_spec_orig_sr(self, audio) == logmelfilterbank(self, audio, self.sr)

mel_spec_new_sr(self, audio) == logmelfilterbank(self, audio, self.new_sr)

\* ------------------------------------------------------- control flow
\* the sub-operations a method performs, in the order it performs them
\* normalize_audio measuring the loudness before the mixdown
NormalizeAudioBody_LoudnessFirst ==
    <<"normalize_loudness", "to_mono", "cut_silence_from_beginning", "resample">>

NormalizeAudioBody ==
    <<"to_mono", "normalize_loudness", "cut_silence_from_beginning", "resample">>

\* audio_to_wave_tensor whose mu-law branch forgets the normalization
AudioToWaveTensorBody_MulawSkipsNormalize(normalize, mulaw) ==
    IF mulaw
    THEN <<"torch.Tensor", "mu_encode">>
    ELSE IF normalize
         THEN <<"to_mono", "normalize_loudness", "cut_silence_from_beginning", "resample">>
         ELSE <<"torch.Tensor">>

AudioToWaveTensorBody(normalize, mulaw) ==
    IF mulaw
    THEN IF normalize
         THEN NormalizeAudioBody \o <<"mu_encode">>
         ELSE <<"torch.Tensor", "mu_encode">>
    ELSE IF normalize
         THEN NormalizeAudioBody
         ELSE <<"torch.Tensor">>

\* audio_to_mel_spec_tensor with the round trip only when normalizing
AudioToMelSpecTensorBody_NoRoundTripOnRaw(normalize) ==
    IF normalize
    THEN <<"to_mono", "normalize_loudness", "cut_silence_from_beginning", "resample",
           "mu_encode", "mu_decode", "mel_spec_new_sr">>
    ELSE <<"torch.Tensor", "mel_spec_orig_sr">>

AudioToMelSpecTensorBody(normalize) ==
    IF normalize
    THEN NormalizeAudioBody \o <<"mu_encode", "mu_decode", "mel_spec_new_sr">>
    ELSE <<"torch.Tensor", "mu_encode", "mu_decode", "mel_spec_orig_sr">>

Body(c) ==
    CASE c.method = "normalize_audio" -> NormalizeAudioBody
      [] c.method = "audio_to_wave_tensor" -> AudioToWaveTensorBody(c.normalize, c.mulaw)
      [] c.method = "audio_to_mel_spec_tensor" -> AudioToMelSpecTensorBody(c.normalize)
      [] c.method = "logmelfilterbank" -> <<"logmelfilterbank">>
      [] c.method = "to_mono" -> <<"to_mono">>

\* ------------------------------------------------------------- inputs
Shapes1D == {<<n>> : n \in 1..MaxLen}

Shapes2D == {<<n, c>> : n \in 1..MaxLen, c \in 2..MaxChannels}

Shapes3D == {<<1, 1, n>> : n \in 1..MaxLen}

InputShapes == {sh \in Shapes1D \cup Shapes2D \cup Shapes3D : Prod(sh) <= MaxLen}

Waveforms ==
    UNION {{Array("float", sh, d) : d \in [1..Prod(sh) -> Samples]} : sh \in InputShapes}

Configurations ==
    {AudioPreprocessor(i, o, MelBucketsDefault, h, n) :
        i \in Rates, o \in Rates \cup {None}, h \in 1..MaxHop, n \in 2..MaxNfft}

NoCall ==
    [method |-> "none", normalize |-> FALSE, mulaw |-> FALSE,
     audio |-> NoValue, sampling_rate |-> None]

Calls ==
    {[method |-> m, normalize |-> n, mulaw |-> u, audio |-> a, sampling_rate |-> None] :
        m \in {"audio_to_wave_tensor"}, n \in BOOLEAN, u \in BOOLEAN, a \in Waveforms}
    \cup
    {[method |-> m, normalize |-> n, mulaw |-> FALSE, audio |-> a, sampling_rate |-> None] :
        m \in {"audio_to_mel_spec_tensor"}, n \in BOOLEAN, a \in Waveforms}
    \cup
    {[method |-> m, normalize |-> TRUE, mulaw |-> FALSE, audio |-> a, sampling_rate |-> None] :
        m \in {"normalize_audio"}, a \in Waveforms}
    \cup
    {[method |-> m, normalize |-> FALSE, mulaw |-> FALSE, audio |-> a, sampling_rate |-> None] :
        m \in {"to_mono"}, a \in Waveforms}
    \cup
    {[method |-> m, normalize |-> FALSE, mulaw |-> FALSE, audio |-> a, sampling_rate |-> r] :
        m \in {"logmelfilterbank"}, a \in Waveforms, r \in Rates}

\* -------------------------------------------------------------- state
VARIABLES self, call, status, todo, cur, log, result

vars == <<self, call, status, todo, cur, log, result>>

Init ==
    /\ self \in Configurations
    /\ call = NoCall
    /\ status = "idle"
    /\ todo = <<>>
    /\ cur = NoValue
    /\ log = <<>>
    /\ result = NoValue

\* a method of the constructed object is called
Call ==
    /\ status = "idle"
    /\ \E c \in Calls :
        /\ call' = c
        /\ todo' = Body(c)
        /\ cur' = c.audio
    /\ status' = "running"
    /\ log' = <<>>
    /\ result' = NoValue
    /\ UNCHANGED self

\* sub-operation op turned cur into out: continue with the rest of the
\* method, or leave it with the exception that out stands for
Advance(op, out) ==
    /\ log' = Append(log, [op |-> op, in |-> cur, out |-> out])
    /\ IF IsError(out)
       THEN /\ status' = "raised"
            /\ todo' = <<>>
            /\ cur' = NoValue
            /\ result' = out
       ELSE /\ status' = "running"
            /\ todo' = Tail(todo)
            /\ cur' = out
            /\ result' = result
    /\ UNCHANGED <<self, call>>

Ready(op) == status = "running" /\ todo # <<>> /\ Head(todo) = op

ToMono == Ready("to_mono") /\ Advance("to_mono", to_mono(cur))

NormalizeLoudness ==
    /\ Ready("normalize_loudness")
    /\ \E gain \in LoudnessGains(cur) :
          Advance("normalize_loudness", normalize_loudness(cur, gain))

CutSilenceFromBeginning ==
    /\ Ready("cut_silence_from_beginning")
    /\ \E k \in 0..LastDim(cur) :
          Advance("cut_silence_from_beginning", cut_silence_from_beginning(cur, k))

Resample == Ready("resample") /\ Advance("resample", resample(self, cur))

ToTensor == Ready("torch.Tensor") /\ Advance("torch.Tensor", Tensor(cur))

MuEncode == Ready("mu_encode") /\ Advance("mu_encode", mu_encode(cur))

MuDecode == Ready("mu_decode") /\ Advance("mu_decode", mu_decode(cur))

MelSpecNewSr ==
    Ready("mel_spec_new_sr") /\ Advance("logmelfilterbank", mel_spec_new_sr(self, cur))

MelSpecOrigSr ==
    Ready("mel_spec_orig_sr") /\ Advance("logmelfilterbank", mel_spec_orig_sr(self, cur))

LogMelFilterbank ==
    /\ Ready("logmelfilterbank")
    /\ Advance("logmelfilterbank", logmelfilterbank(self, cur, call.sampling_rate))

\* the method returns the value of its last sub-operation
Return ==
    /\ status = "running"
    /\ todo = <<>>
    /\ status' = "returned"
    /\ result' = cur
    /\ UNCHANGED <<self, call, todo, cur, log>>

Next ==
    \/ Call
    \/ ToMono
    \/ NormalizeLoudness
    \/ CutSilenceFromBeginning
    \/ Resample
    \/ ToTensor
    \/ MuEncode
    \/ MuDecode
    \/ MelSpecNewSr
    \/ MelSpecOrigSr
    \/ LogMelFilterbank
    \/ Return

Spec == Init /\ [][Next]_vars

TypeOK ==
    /\ self \in Configurations
    /\ status \in {"idle", "running", "returned", "raised"}
    /\ call \in Calls \cup {NoCall}

\* ======================================================== properties
Ops(l) == [i \in 1..Len(l) |-> l[i].op]

Finished == status \in {"returned", "raised"}

\* the running or finished call goes through normalize_audio
CallsNormalize ==
    \/ call.method = "normalize_audio"
    \/ call.method \in {"audio_to_wave_tensor", "audio_to_mel_spec_tensor"} /\ call.normalize

FourSteps == <<"to_mono", "normalize_loudness", "cut_silence_from_beginning", "resample">>

InFourSteps(op) == \E i \in 1..4 : FourSteps[i] = op

HasNonFinite(x) == \E i \in 1..Len(x.data) : IsSpecial(x.data[i])

\* the position in log of the call of logmelfilterbank, 0 if there is none
MelPos == IF log # <<>> /\ log[Len(log)].op = "logmelfilterbank" THEN Len(log) ELSE 0

\* C1: every call of normalize_audio on a 1-D or 2-D input performs mono
\* mixdown, loudness normalization, leading-silence trimming and resampling,
\* each exactly once, in this order, each on the result of the previous one,
\* and does not end before all four have run.
C1_FourStepsInOrder ==
    (CallsNormalize /\ NDim(call.audio) \in {1, 2}) =>
        /\ \A i \in 1..Len(log) :
              IF i <= 4
              THEN /\ log[i].op = FourSteps[i]
                   /\ log[i].in = (IF i = 1 THEN call.audio ELSE log[i - 1].out)
              ELSE ~InFourSteps(log[i].op)
        /\ Finished => Len(log) >= 4
        /\ (status = "returned" /\ call.method = "normalize_audio") => result = log[4].out

C1_Witness ==
    /\ call.method = "normalize_audio"
    /\ NDim(call.audio) = 2
    /\ status = "returned"
    /\ Len(log) = 4
    /\ self.resample.kind = "RateConvert"

\* C2: audio_to_mel_spec_tensor(audio, normalize=True) computes the mel
\* spectrogram with the rate of the waveform normalize_audio returns, that
\* is final_sr, also when output_sr is unset.
C2_MelAtFinalSr ==
    (call.method = "audio_to_mel_spec_tensor" /\ call.normalize /\ MelPos # 0
        /\ log[Len(log)].out.kind = "mel")
    => log[Len(log)].out.sampling_rate = self.final_sr

\* C3: in both branches of audio_to_mel_spec_tensor the waveform is mu-law
\* encoded and immediately decoded right before logmelfilterbank; with
\* normalize the round trip is applied to the result of normalize_audio,
\* without it to the raw waveform and the spectrogram uses the input rate.
C3_RoundTripBeforeMel ==
    (call.method = "audio_to_mel_spec_tensor" /\ MelPos # 0) =>
        LET n == MelPos IN
        /\ n >= 4
        /\ log[n - 2].op = "mu_encode" /\ log[n - 2].out.kind = "code"
        /\ log[n - 1].op = "mu_decode" /\ log[n - 1].out.kind = "float"
        /\ log[n - 1].in = log[n - 2].out
        /\ log[n].in = log[n - 1].out
        /\ \A i \in 1..Len(log[n - 2].in.data) :
              log[n - 2].out.data[i] = MuLawEncodeSample(log[n - 2].in.data[i])
        /\ log[n - 2].in = log[n - 3].out
        /\ IF call.normalize
           THEN n = 7 /\ log[n - 3].op = "resample"
           ELSE /\ n = 4
                /\ log[n - 3].op = "torch.Tensor"
                /\ log[n - 3].in = call.audio
                /\ log[n - 3].out.data = call.audio.data
                /\ log[n].out.kind = "mel" => log[n].out.sampling_rate = self.sr

C3_Witness ==
    /\ call.method = "audio_to_mel_spec_tensor"
    /\ ~call.normalize
    /\ status = "returned"
    /\ MelPos = 4
    /\ log[3].out # log[2].in

\* C4: an array that is neither 1-D nor 2-D makes normalize_audio fail with
\* InvalidInput before loudness normalization, trimming or resampling run.
C4_InvalidInputRejected ==
    (CallsNormalize /\ NDim(call.audio) \notin {1, 2}) =>
        /\ \A i \in 1..Len(log) :
              log[i].op \notin {"normalize_loudness", "cut_silence_from_beginning", "resample"}
        /\ status # "returned"
        /\ status = "raised" => result.kind = "InvalidInput"

\* C5: for an all-zero input the peak division is skipped, so that
\* normalize_loudness produces no NaN or Inf sample.
C5_SilenceHasFloor ==
    (CallsNormalize /\ NDim(call.audio) \in {1, 2} /\ IsSilent(call.audio)) =>
        \A i \in 1..Len(log) :
            log[i].op = "normalize_loudness" => ~HasNonFinite(log[i].out)

\* C6 as stated: for a mono waveform of length L >= n_fft the number of
\* time frames is 1 + floor(L / hop_length), for odd and even n_fft.
C6_FramesAsStated ==
    \A i \in 1..Len(log) :
        (/\ log[i].op = "logmelfilterbank"
         /\ NDim(log[i].in) = 1
         /\ Len(log[i].in.data) >= self.n_fft
         /\ log[i].out.kind = "mel")
        => log[i].out.shape[2] = 1 + (Len(log[i].in.data) \div self.hop_length)

\* C6 amended: for a mono waveform of length L >= n_fft the number of time
\* frames is 1 + floor((L + 2 * (n_fft // 2) - n_fft) / hop_length), which is
\* 1 + floor(L / hop_length) when n_fft is even.
C6_FramesAmended ==
    \A i \in 1..Len(log) :
        (/\ log[i].op = "logmelfilterbank"
         /\ NDim(log[i].in) = 1
         /\ Len(log[i].in.data) >= self.n_fft)
        => LET L == Len(log[i].in.data)
           IN  /\ log[i].out.kind = "mel"
               /\ log[i].out.shape[1] = self.mel_buckets
               /\ log[i].out.shape[2] =
                     1 + ((L + 2 * (self.n_fft \div 2) - self.n_fft) \div self.hop_length)
               /\ self.n_fft % 2 = 0 =>
                     log[i].out.shape[2] = 1 + (L \div self.hop_length)

C6_Witness ==
    /\ MelPos # 0
    /\ self.n_fft % 2 = 1
    /\ self.hop_length = 1
    /\ NDim(log[MelPos].in) = 1
    /\ Len(log[MelPos].in.data) = self.n_fft
    /\ log[MelPos].out.kind = "mel"
    /\ log[MelPos].out.shape[2] = self.n_fft

\* the configuration the constructor leaves behind
ConfigAsConstructed ==
    /\ (self.resample.kind = "Identity") <=> (self.new_sr = None \/ self.new_sr = self.sr)
    /\ self.resample.kind = "Identity" => self.final_sr = self.sr
    /\ self.resample.kind # "Identity" =>
          /\ self.resample = [kind |-> "RateConvert", orig_freq |-> self.sr,
                              new_freq |-> self.new_sr]
          /\ self.final_sr = self.new_sr
    /\ \A i \in 1..Len(log) :
          (log[i].op = "resample" /\ (self.new_sr = None \/ self.new_sr = self.sr))
          => log[i].out = log[i].in

\* C7: the resample variant is the identity and final_sr = input_sr exactly
\* when output_sr is unset or equal to input_sr, otherwise it converts from
\* input_sr to output_sr and final_sr = output_sr; no method changes the
\* configuration after construction.
C7_ResampleFixedAtConstruction == [](ConfigAsConstructed) /\ [][self' = self]_vars

C7_Witness ==
    /\ status = "returned"
    /\ self.new_sr = self.sr
    /\ \E i \in 1..Len(log) : log[i].op = "resample" /\ Len(log[i].in.data) > 1

\* C8: audio_to_wave_tensor returns the unchanged float waveform, the result
\* of normalize_audio, the mu-law codes of the raw waveform, or the mu-law
\* codes of the result of normalize_audio, according to its two flags; mu-law
\* decoding is never applied.
C8_WaveTensorByFlags ==
    (call.method = "audio_to_wave_tensor" /\ status = "returned") =>
        /\ \A i \in 1..Len(log) : log[i].op # "mu_decode"
        /\ (~call.normalize /\ ~call.mulaw) =>
              /\ Ops(log) = <<"torch.Tensor">>
              /\ result.kind = "float"
              /\ result.shape = call.audio.shape
              /\ result.data = call.audio.data
        /\ (call.normalize /\ ~call.mulaw) =>
              /\ Ops(log) = FourSteps
              /\ result = log[4].out
        /\ (~call.normalize /\ call.mulaw) =>
              /\ Ops(log) = <<"torch.Tensor", "mu_encode">>
              /\ result.kind = "code"
              /\ result.shape = call.audio.shape
              /\ \A i \in 1..Len(call.audio.data) :
                    result.data[i] = MuLawEncodeSample(call.audio.data[i])
        /\ (call.normalize /\ call.mulaw) =>
              /\ Ops(log) = FourSteps \o <<"mu_encode">>
              /\ log[5].in = log[4].out
              /\ result = log[5].out
              /\ result.kind = "code"
              /\ \A i \in 1..Len(log[4].out.data) :
                    result.data[i] = MuLawEncodeSample(log[4].out.data[i])

C8_Witness ==
    /\ call.method = "audio_to_wave_tensor"
    /\ call.normalize /\ call.mulaw
    /\ status = "returned"
    /\ Len(result.data) = MaxLen
    /\ \E i \in 1..Len(result.data) : result.data[i] \notin {0, 128, 255}

\* C9: to_mono is idempotent on 1-D and 2-D inputs and returns a 1-D signal
\* unchanged.
C9_ToMonoIdempotent ==
    \A i \in 1..Len(log) :
        (log[i].op = "to_mono" /\ NDim(log[i].in) \in {1, 2}) =>
            /\ to_mono(log[i].out) = log[i].out
            /\ NDim(log[i].in) = 1 => log[i].out = log[i].in

C9_Witness ==
    \E i \in 1..Len(log) :
        /\ log[i].op = "to_mono"
        /\ NDim(log[i].in) = 2
        /\ log[i].in.data # log[i].out.data
        /\ \E j \in 1..Len(log[i].out.data) : log[i].out.data[j] # 0

\* C10: the waveform handed to logmelfilterbank by audio_to_mel_spec_tensor
\* is mono for every 1-D or 2-D input, with and without normalize.
C10_MonoBeforeStft ==
    (call.method = "audio_to_mel_spec_tensor" /\ NDim(call.audio) \in {1, 2} /\ MelPos # 0)
    => NDim(log[MelPos].in) = 1

====
